---------------------------- MODULE Spec2Model ----------------------------
(***************************************************************************)
(* Model of PadDynamicalDecoupling                                         *)
(* (qiskit_ibm_provider/transpiler/passes/scheduling/                      *)
(* dynamical_decoupling.py): the constructor's arguments, _pre_runhook     *)
(* (setup), _pad (one call per idle interval) and _mod_2pi; and of the     *)
(* pagination of IBMBackendService (qiskit_ibm_provider/                   *)
(* ibm_backend_service.py): _get_jobs and _get_job_ids.                    *)
(*                                                                         *)
(* Conventions.                                                            *)
(*  - Angles are integers in units of pi/2, so 2*pi is 4 and pi is 2.      *)
(*  - A spacing fraction is a pair <<num, den>> with den > 0 and is        *)
(*    handled exactly; the fractions drawn are dyadic, for which the       *)
(*    binary floating point arithmetic of the code is exact too.           *)
(*  - A gate matrix is an element <<k, p>> of the Pauli group: i^k * p.    *)
(*  - A node's params are a sequence of tokens; compose_u3 concatenates.   *)
(***************************************************************************)
EXTENDS Integers, Sequences, FiniteSets, TLC

VARIABLES
    dd_sequence,              \* self._dd_sequence: sequence of gate names
    qubits,                   \* self._qubits: [given, idx]; given = FALSE is None
    spacing,                  \* self._spacing: [given, v]; given = FALSE is None
    skip_reset_qubits,        \* self._skip_reset_qubits
    alignment,                \* self._alignment (pulse_alignment)
    extra_slack_distribution, \* self._extra_slack_distribution
    dd_sequence_lengths,      \* self._dd_sequence_lengths: qubit -> lengths
    sequence_phase,           \* self._sequence_phase
    gate_duration,            \* the duration attribute of each gate of dd_sequence
    calibrations,             \* dag.calibrations: <<qubit, gate>> -> length, 0 = no entry
    physical,                 \* the dag has the single register "q"
    global_phase,             \* dag.global_phase
    node_params,              \* node -> op.params of the circuit's nodes
    pc,                       \* "new" | "ready" | "padded" | "raised"; "alloc" | "allocated" in SpecAlloc
    emitted,                  \* the operations the last _pad call emitted, in order
    any_emitted,              \* history: _pad has emitted an operation in this run
    n_pads,                   \* _pad calls made in this run
    last,                     \* the last _pad call: its inputs and the path it took
    n_fills,                  \* history: intervals FILLed in this run
    n_phase_writes,           \* history: assignments to dag.global_phase
    phase_sum,                \* history: initial phase + every FILL's contribution
    init_phase,               \* history: dag.global_phase when the run started
    error,                    \* the exception that ended the run, "none" while there is none
    server_jobs,              \* the server's matching jobs, by ascending creationDate
    page_cap,                 \* the most jobs the server returns for one request
    limit,                    \* the limit argument: [given, v]; given = FALSE is None
    skip_arg,                 \* the skip argument
    descending,               \* the descending argument
    skip,                     \* the local skip of _get_jobs / _get_job_ids
    api_filter,               \* the local api_filter of _get_job_ids
    current_page_limit,       \* the local current_page_limit
    job_responses,            \* the local job_responses
    svc_pc                    \* "idle" | "jobs" | "job_ids" | "returned"

pass_vars == << dd_sequence, qubits, spacing, skip_reset_qubits, alignment,
                extra_slack_distribution, dd_sequence_lengths, sequence_phase,
                gate_duration, calibrations, physical, global_phase, node_params,
                pc, emitted, any_emitted, n_pads, last, n_fills, n_phase_writes,
                phase_sum, init_phase, error >>

service_vars == << server_jobs, page_cap, limit, skip_arg, descending, skip,
                   api_filter, current_page_limit, job_responses, svc_pc >>

vars == << pass_vars, service_vars >>

\* no call of the backend service is in progress
ServiceIdle ==
    /\ server_jobs = <<>>
    /\ page_cap = 1
    /\ limit = [given |-> FALSE, v |-> 0]
    /\ skip_arg = 0
    /\ descending = TRUE
    /\ skip = 0
    /\ api_filter = [creationDate |-> <<>>, id |-> <<>>]
    /\ current_page_limit = 0
    /\ job_responses = <<>>
    /\ svc_pc = "idle"

--------------------------------------------------------------------------
(* Bounds *)

MaxSeqLen == 2
MaxAlign == 2
MaxInterval == 5
MaxStart == 1
MaxIntervals == 2
MaxSpacingLen == 5
SpacingDen == 4
MaxAllocAlign == 4
MaxSlack == 12
MaxOverrides == 1
MaxSetupSeqLen == 3

--------------------------------------------------------------------------
(* Sequences and fractions *)

RECURSIVE SumSeq(_)
SumSeq(s) == IF s = <<>> THEN 0 ELSE Head(s) + SumSeq(Tail(s))

SeqsUpTo(S, n) == UNION { [1..k -> S] : k \in 0..n }

RatAdd(a, b) == << a[1] * b[2] + b[1] * a[2], a[2] * b[2] >>

RECURSIVE RatSum(_)
RatSum(s) == IF s = <<>> THEN <<0, 1>> ELSE RatAdd(Head(s), RatSum(Tail(s)))

\* sum(self._spacing) != 1
SumIsOne(s) == LET r == RatSum(s) IN r[1] = r[2]

\* any(a < 0 for a in self._spacing)
AnyNegative(s) == \E i \in 1..Len(s) : s[i][1] < 0

--------------------------------------------------------------------------
(* Gates: matrices in the Pauli group, i^k * p *)

Gates == {"x", "y", "z", "rx"}

\* the gates the padded sequences are drawn from
PadGates == {"x", "y", "rx"}

\* gate.to_matrix(): X, Y, Z, and RX(pi) = -i X
ToMatrix(g) == CASE g = "x" -> <<0, "X">>
                 [] g = "y" -> <<0, "Y">>
                 [] g = "z" -> <<0, "Z">>
                 [] g = "rx" -> <<3, "X">>

PauliMul(p, q) ==
    IF p = "I" THEN <<0, q>>
    ELSE IF q = "I" THEN <<0, p>>
    ELSE IF p = q THEN <<0, "I">>
    ELSE CASE p = "X" /\ q = "Y" -> <<1, "Z">>
           [] p = "Y" /\ q = "Z" -> <<1, "X">>
           [] p = "Z" /\ q = "X" -> <<1, "Y">>
           [] p = "Y" /\ q = "X" -> <<3, "Z">>
           [] p = "Z" /\ q = "Y" -> <<3, "X">>
           [] p = "X" /\ q = "Z" -> <<3, "Y">>

\* noop.dot(gate.to_matrix())
MatDot(a, b) == LET m == PauliMul(a[2], b[2])
                IN  << (a[1] + b[1] + m[1]) % 4, m[2] >>

RECURSIVE SeqProduct(_, _)
SeqProduct(noop, s) ==
    IF s = <<>> THEN noop ELSE SeqProduct(MatDot(noop, ToMatrix(Head(s))), Tail(s))

\* np.angle(i^k), in (-pi, pi]
Angle(k) == CASE k = 0 -> 0 [] k = 1 -> 1 [] k = 2 -> 2 [] k = 3 -> -1

\* gate.inverse().to_matrix()
InverseMatrix(g) == LET m == ToMatrix(g) IN << (4 - m[1]) % 4, m[2] >>

\* OneQubitEulerDecomposer().angles_and_phase(u_inv): the angles as one token,
\* the phase as the angle of the matrix's scalar factor
EulerAngles(g) == << "inv_" \o g >>
EulerPhase(g) == Angle(InverseMatrix(g)[1])

\* Optimize1qGates.compose_u3(left angles, right angles)
ComposeU3(a, b) == a \o b

--------------------------------------------------------------------------
(* The circuit: two physical qubits and the nodes next to the idle intervals *)

Qubits == {0, 1}

\* DAGInNode "in", DAGOutNode "out", DAGOpNodes: Reset "reset", UGate/U3Gate
\* "ua" and "ub", any other operation "cx"
OpNodes == {"reset", "ua", "cx", "ub"}
PrevNodes == {"in", "reset", "ua", "cx"}
NextNodes == {"ub", "out"}

\* isinstance(node, DAGOpNode) and isinstance(node.op, (UGate, U3Gate))
IsUNode(n) == n \in {"ua", "ub"}

\* isinstance(prev_node, DAGInNode) or isinstance(prev_node.op, Reset)
IsGroundState(n) == n \in {"in", "reset"}

InitialParams == [n \in OpNodes |->
                    CASE n = "ua" -> <<"a">> [] n = "ub" -> <<"b">> [] OTHER -> <<>>]

\* self._durations.get(gate, physical_index): the generic durations table
DurationsGet(g, q) == CASE g = "x" -> 1 [] g = "y" -> 1 [] g = "z" -> 1 [] g = "rx" -> 2

NoCalibrations == [k \in Qubits \X Gates |-> 0]

--------------------------------------------------------------------------
(* __init__: the arguments and their defaults *)

NoneArg == [given |-> FALSE, v |-> <<>>]
NoQubits == [given |-> FALSE, idx |-> {}]

DefaultArgs == [qubits |-> NoQubits, spacing |-> NoneArg,
                skip_reset_qubits |-> TRUE, pulse_alignment |-> 1,
                extra_slack_distribution |-> "middle"]

Distributions == {"middle", "edges", "center"}

QubitArgs == {NoQubits, [given |-> TRUE, idx |-> {}], [given |-> TRUE, idx |-> {0}]}

\* user spacings: of the right and of a wrong length, valid, not summing
\* to 1, and with a negative element
UserSpacings == { << <<1, 1>> >>,
                  << <<0, 1>>, <<1, 1>> >>,
                  << <<1, 2>>, <<1, 4>>, <<1, 4>> >>,
                  << <<1, 2>>, <<1, 1>> >>,
                  << <<-1, 2>>, <<1, 1>>, <<1, 2>> >> }

SpacingArgs == {NoneArg} \cup { [given |-> TRUE, v |-> s] : s \in UserSpacings }

ArgSpace == [qubits : QubitArgs, spacing : SpacingArgs,
             skip_reset_qubits : BOOLEAN, pulse_alignment : 1..MaxAlign,
             extra_slack_distribution : Distributions]

\* the circuit handed to the pass
DefaultDag == [calibrations |-> NoCalibrations, physical |-> TRUE, global_phase |-> 0]

CalibrationChoices ==
    {NoCalibrations} \cup
    { [NoCalibrations EXCEPT ![<<0, "x">>] = c] : c \in 1..MaxAlign }

\* the pass is handed physical circuits; global_phase 3 is 3*pi/2
DagSpace == [calibrations : CalibrationChoices, physical : {TRUE},
             global_phase : {0, 3}]

Differing(r, d) == Cardinality({ f \in DOMAIN r : r[f] # d[f] })

NoLast == [qubit |-> 0, t_start |-> 0, t_end |-> 0, prev |-> "in", next |-> "out",
           path |-> "none", slack |-> 0, taus |-> <<>>, absorbed |-> "none"]

Init ==
    \E args \in ArgSpace, dag \in DagSpace, seq \in SeqsUpTo(PadGates, MaxSeqLen) :
        /\ Differing(args, DefaultArgs) + Differing(dag, DefaultDag) <= MaxOverrides
        /\ dd_sequence = seq
        /\ qubits = args.qubits
        /\ spacing = args.spacing
        /\ skip_reset_qubits = args.skip_reset_qubits
        /\ alignment = args.pulse_alignment
        /\ extra_slack_distribution = args.extra_slack_distribution
        /\ dd_sequence_lengths = [q \in Qubits |-> <<>>]
        /\ sequence_phase = 0
        /\ gate_duration = [i \in 1..Len(seq) |-> 0]
        /\ calibrations = dag.calibrations
        /\ physical = dag.physical
        /\ global_phase = dag.global_phase
        /\ init_phase = dag.global_phase
        /\ phase_sum = dag.global_phase
        /\ node_params = InitialParams
        /\ pc = "new"
        /\ emitted = <<>>
        /\ any_emitted = FALSE
        /\ n_pads = 0
        /\ n_fills = 0
        /\ n_phase_writes = 0
        /\ last = NoLast
        /\ error = "none"
        /\ ServiceIdle

--------------------------------------------------------------------------
(* _pre_runhook *)

Targeted(q) == ~(qubits.given /\ qubits.idx # {}) \/ q \in qubits.idx

\* dag.calibrations[gate.name][(physical_index, gate.params)], else the table
GateLength(q, g) ==
    IF calibrations[<<q, g>>] # 0 THEN calibrations[<<q, g>>] ELSE DurationsGet(g, q)

\* a check that accepts every calibrated length
BadCalibrationNever(q, g) == FALSE

\* a calibrated gate whose length is not a multiple of the alignment
BadCalibration(q, g) ==
    calibrations[<<q, g>>] # 0 /\ calibrations[<<q, g>>] % alignment # 0

\* a spacing of num_pulses + 1 equal fractions
BalancedSpacingUniform(num_pulses) ==
    [i \in 1..(num_pulses + 1) |-> <<1, num_pulses + 1>>]

\* [end] + [mid] * (num_pulses - 1) + [end], mid = 1 / num_pulses, end = mid / 2
BalancedSpacing(num_pulses) ==
    [i \in 1..(num_pulses + 1) |->
        IF i = 1 \/ i = num_pulses + 1 THEN <<1, 2 * num_pulses>> ELSE <<1, num_pulses>>]

\* lines 172-186 without the test for a negative element
CheckCircuitAndSpacingSumOnly ==
    IF ~physical THEN "not_physical"
    ELSE IF ~spacing.given
         THEN IF Len(dd_sequence) = 0 THEN "zero_division" ELSE "ok"
         ELSE IF ~SumIsOne(spacing.v) THEN "bad_spacing" ELSE "ok"

\* lines 172-186: "ok" or the reason to raise
CheckCircuitAndSpacing ==
    IF ~physical THEN "not_physical"
    ELSE IF ~spacing.given
         THEN IF Len(dd_sequence) = 0 THEN "zero_division" ELSE "ok"
         ELSE IF ~SumIsOne(spacing.v) \/ AnyNegative(spacing.v)
              THEN "bad_spacing" ELSE "ok"

\* lines 188-201 without the test of the product
CheckSequenceParityOnly ==
    IF Len(dd_sequence) = 1 THEN "ok"
    ELSE IF Len(dd_sequence) % 2 # 0 THEN "odd_length"
    ELSE "ok"

\* lines 188-201 without the test of the length
CheckSequenceIdentityOnly ==
    IF Len(dd_sequence) = 1 THEN "ok"
    ELSE IF SeqProduct(<<0, "I">>, dd_sequence)[2] # "I" THEN "not_identity"
    ELSE "ok"

\* lines 188-201: "ok" or the reason to raise
CheckSequence ==
    IF Len(dd_sequence) = 1 THEN "ok"
    ELSE IF Len(dd_sequence) % 2 # 0 THEN "odd_length"
    ELSE IF SeqProduct(<<0, "I">>, dd_sequence)[2] # "I" THEN "not_identity"
    ELSE "ok"

\* line 202
SequencePhase ==
    IF Len(dd_sequence) = 1 THEN sequence_phase
    ELSE Angle(SeqProduct(<<0, "I">>, dd_sequence)[1])

\* the targeted qubits, in the order of dag.qubits, up to the first one with a
\* badly calibrated gate
FirstBadQubit ==
    LET bad == { q \in Qubits : Targeted(q) /\
                   \E i \in 1..Len(dd_sequence) : BadCalibration(q, dd_sequence[i]) }
    IN  IF bad = {} THEN -1 ELSE CHOOSE q \in bad : \A r \in bad : q <= r

FirstBadGate(q) ==
    CHOOSE i \in 1..Len(dd_sequence) :
        /\ BadCalibration(q, dd_sequence[i])
        /\ \A j \in 1..(i - 1) : ~BadCalibration(q, dd_sequence[j])

\* lines 205-235: self._dd_sequence_lengths after the loop (or when it raised)
SequenceLengths ==
    [q \in Qubits |->
        IF Targeted(q) /\ (FirstBadQubit = -1 \/ q < FirstBadQubit)
        THEN [i \in 1..Len(dd_sequence) |-> GateLength(q, dd_sequence[i])]
        ELSE dd_sequence_lengths[q]]

\* line 234: gate.duration = gate_length, the last assignment made to gate i
GateDurations ==
    [i \in 1..Len(dd_sequence) |->
        LET done == { q \in Qubits : Targeted(q) /\
                        \/ FirstBadQubit = -1
                        \/ q < FirstBadQubit
                        \/ (q = FirstBadQubit /\ i < FirstBadGate(q)) }
        IN  IF done = {} THEN gate_duration[i]
            ELSE GateLength(CHOOSE q \in done : \A r \in done : r <= q, dd_sequence[i])]

PreRunhook ==
    /\ pc = "new"
    /\ LET c1 == CheckCircuitAndSpacing
           c2 == CheckSequence
           setDefault == physical /\ ~spacing.given /\ Len(dd_sequence) # 0
           lengthsRun == c1 = "ok" /\ c2 = "ok"
       IN  /\ spacing' = IF setDefault
                         THEN [given |-> TRUE, v |-> BalancedSpacing(Len(dd_sequence))]
                         ELSE spacing
           /\ sequence_phase' = IF lengthsRun THEN SequencePhase ELSE sequence_phase
           /\ dd_sequence_lengths' = IF lengthsRun THEN SequenceLengths
                                     ELSE dd_sequence_lengths
           /\ gate_duration' = IF lengthsRun THEN GateDurations ELSE gate_duration
           /\ pc' = IF lengthsRun /\ FirstBadQubit = -1 THEN "ready" ELSE "raised"
           /\ error' = IF c1 # "ok" THEN c1
                       ELSE IF c2 # "ok" THEN c2
                       ELSE IF FirstBadQubit # -1 THEN "bad_calibration"
                       ELSE "none"
    /\ UNCHANGED << dd_sequence, qubits, skip_reset_qubits, alignment,
                    extra_slack_distribution, calibrations, physical, global_phase,
                    node_params, emitted, any_emitted, n_pads, last, n_fills,
                    n_phase_writes, phase_sum, init_phase >>
    /\ UNCHANGED service_vars

--------------------------------------------------------------------------
(* _pad: the delay lengths, lines 332-356 *)

\* a floor to an integer that ignores the alignment
ConstrainedLengthFloorOnly(num, den, a) == num \div den

\* _constrained_length(values) = alignment * floor(values / alignment),
\* for the value num / den
ConstrainedLength(num, den, a) == a * (num \div (den * a))

\* (1) taus = _constrained_length(slack * spacing)
FlooredTaus(slack, sp, a) ==
    [i \in 1..Len(sp) |-> ConstrainedLength(slack * sp[i][1], sp[i][2], a)]

\* the upper middle index, int(len(taus) / 2), as a 1-based index
MidIndUpper(taus) == (Len(taus) \div 2) + 1

\* mid_ind = int((len(taus) - 1) / 2), as a 1-based index
MidInd(taus) == ((Len(taus) - 1) \div 2) + 1

\* "middle" with the remainder handed to the first delay
DistributeMiddleRemainderFirst(taus, extra_slack, a) ==
    LET to_middle == ConstrainedLength(extra_slack, 1, a)
        t1 == [taus EXCEPT ![MidInd(taus)] = @ + to_middle]
    IN  [t1 EXCEPT ![1] = @ + (extra_slack - to_middle)]

\* "middle" without the remainder handed to the last delay
DistributeMiddleDropRemainder(taus, extra_slack, a) ==
    [taus EXCEPT ![MidInd(taus)] = @ + ConstrainedLength(extra_slack, 1, a)]

\* (2) "middle"
DistributeMiddle(taus, extra_slack, a) ==
    LET to_middle == ConstrainedLength(extra_slack, 1, a)
        t1 == [taus EXCEPT ![MidInd(taus)] = @ + to_middle]
    IN  IF extra_slack - to_middle # 0
        THEN [t1 EXCEPT ![Len(taus)] = @ + (extra_slack - to_middle)]
        ELSE t1

\* "edges" with the two shares swapped
DistributeEdgesSwapped(taus, extra_slack, a) ==
    LET to_begin_edge == ConstrainedLength(extra_slack, 2, a)
        t1 == [taus EXCEPT ![1] = @ + (extra_slack - to_begin_edge)]
    IN  [t1 EXCEPT ![Len(taus)] = @ + to_begin_edge]

\* "edges" with a first share that is half the extra slack, off the grid
DistributeEdgesHalf(taus, extra_slack, a) ==
    LET to_begin_edge == extra_slack \div 2
        t1 == [taus EXCEPT ![1] = @ + to_begin_edge]
    IN  [t1 EXCEPT ![Len(taus)] = @ + (extra_slack - to_begin_edge)]

\* (2) "edges"
DistributeEdges(taus, extra_slack, a) ==
    LET to_begin_edge == ConstrainedLength(extra_slack, 2, a)
        t1 == [taus EXCEPT ![1] = @ + to_begin_edge]
    IN  [t1 EXCEPT ![Len(taus)] = @ + (extra_slack - to_begin_edge)]

\* the distributions line 340-356 accepts
ValidDistribution(dist) == dist \in {"middle", "edges"}

\* the floored delay lengths alone, the extra slack left out
DelayLengthsNoExtra(slack, sp, a, dist) == FlooredTaus(slack, sp, a)

\* the delay lengths of one interval
DelayLengths(slack, sp, a, dist) ==
    LET taus == FlooredTaus(slack, sp, a)
        extra_slack == slack - SumSeq(taus)
    IN  IF dist = "middle" THEN DistributeMiddle(taus, extra_slack, a)
        ELSE DistributeEdges(taus, extra_slack, a)

--------------------------------------------------------------------------
(* _pad: emission, lines 358-373 *)

\* Delay(duration, unit)
DelayOp(duration) ==
    [kind |-> "delay", name |-> "delay", t0 |-> 0, length |-> duration,
     duration |-> duration]

\* the gate self._dd_sequence[dd_ind] with its duration attribute; length is
\* the cached length by which idle_after advances
GateOp(dd_ind, gate_length) ==
    [kind |-> "gate", name |-> dd_sequence[dd_ind], t0 |-> 0, length |-> gate_length,
     duration |-> gate_duration[dd_ind]]

\* self._apply_scheduled_op(block_idx, t_start, op, qubit)
ApplyScheduledOp(ops, t_start, op) == Append(ops, [op EXCEPT !.t0 = t_start])

\* a loop that leaves out the last gate of the sequence
EmitsGateButLast(dd_ind) == dd_ind < Len(dd_sequence)

\* a loop that leaves out the gate of a one-gate sequence
EmitsGateUnlessSingle(dd_ind) == dd_ind <= Len(dd_sequence) /\ Len(dd_sequence) # 1

\* whether the loop emits the gate at position dd_ind
EmitsGate(dd_ind) == dd_ind <= Len(dd_sequence)

\* the loop of lines 361-373 from dd_ind on (1-based)
RECURSIVE ConstructFrom(_, _, _, _, _)
ConstructFrom(dd_ind, idle_after, ops, taus, lengths) ==
    IF dd_ind > (IF Len(dd_sequence) > Len(taus) THEN Len(dd_sequence) ELSE Len(taus))
    THEN ops
    ELSE LET withDelay == dd_ind <= Len(taus) /\ taus[dd_ind] > 0
             ops1 == IF withDelay
                     THEN ApplyScheduledOp(ops, idle_after, DelayOp(taus[dd_ind]))
                     ELSE ops
             t1 == IF withDelay THEN idle_after + taus[dd_ind] ELSE idle_after
             withGate == EmitsGate(dd_ind)
             ops2 == IF withGate
                     THEN ApplyScheduledOp(ops1, t1, GateOp(dd_ind, lengths[dd_ind]))
                     ELSE ops1
             t2 == IF withGate THEN t1 + lengths[dd_ind] ELSE t1
         IN  ConstructFrom(dd_ind + 1, t2, ops2, taus, lengths)

\* a wrap into [0, 2*pi)
Mod2PiPositive(angle, atol) == angle % 4

\* a wrap into (-pi, pi]
Mod2PiUpperClosed(angle, atol) == 2 - ((2 - angle) % 4)

\* _mod_2pi(angle, atol): 2 is pi and 4 is 2*pi
Mod2Pi(angle, atol) ==
    LET wrapped == ((angle + 2) % 4) - 2
    IN  IF (IF wrapped - 2 < 0 THEN 2 - wrapped ELSE wrapped - 2) < atol
        THEN -2 ELSE wrapped

\* the returns of lines 277-301 alone, without the one of lines 325-330
PadPathNoFallback(qubit, time_interval, prev_node, next_node) ==
    IF qubits.given /\ qubits.idx # {} /\ qubit \notin qubits.idx THEN "skip_qubit"
    ELSE IF skip_reset_qubits /\ IsGroundState(prev_node) THEN "skip_reset"
    ELSE IF time_interval - SumSeq(dd_sequence_lengths[qubit]) <= 0 THEN "skip_slack"
    ELSE "go_on"

\* the returns of lines 277-330 without the one of lines 284-291
PadPathNoResetSkip(qubit, time_interval, prev_node, next_node) ==
    IF qubits.given /\ qubits.idx # {} /\ qubit \notin qubits.idx THEN "skip_qubit"
    ELSE IF time_interval - SumSeq(dd_sequence_lengths[qubit]) <= 0 THEN "skip_slack"
    ELSE IF Len(dd_sequence) = 1 /\ ~IsUNode(next_node) /\ ~IsUNode(prev_node)
         THEN "skip_noabsorb"
    ELSE "go_on"

\* the returns of lines 277-330 with slack < 0 for slack <= 0
PadPathStrictSlack(qubit, time_interval, prev_node, next_node) ==
    IF qubits.given /\ qubits.idx # {} /\ qubit \notin qubits.idx THEN "skip_qubit"
    ELSE IF skip_reset_qubits /\ IsGroundState(prev_node) THEN "skip_reset"
    ELSE IF time_interval - SumSeq(dd_sequence_lengths[qubit]) < 0 THEN "skip_slack"
    ELSE IF Len(dd_sequence) = 1 /\ ~IsUNode(next_node) /\ ~IsUNode(prev_node)
         THEN "skip_noabsorb"
    ELSE "go_on"

\* the first return of lines 277-330 that applies, or "go_on"
PadPath(qubit, time_interval, prev_node, next_node) ==
    IF qubits.given /\ qubits.idx # {} /\ qubit \notin qubits.idx THEN "skip_qubit"
    ELSE IF skip_reset_qubits /\ IsGroundState(prev_node) THEN "skip_reset"
    ELSE IF time_interval - SumSeq(dd_sequence_lengths[qubit]) <= 0 THEN "skip_slack"
    ELSE IF Len(dd_sequence) = 1 /\ ~IsUNode(next_node) /\ ~IsUNode(prev_node)
         THEN "skip_noabsorb"
    ELSE "go_on"

\* an absorption that tries the predecessor before the successor
AbsorberPrevFirst(prev_node, next_node) ==
    IF Len(dd_sequence) # 1 THEN "none"
    ELSE IF IsUNode(prev_node) THEN "prev"
    ELSE IF IsUNode(next_node) THEN "next"
    ELSE "none"

\* lines 303-324: which neighbor absorbs the inverse of the single gate
Absorber(prev_node, next_node) ==
    IF Len(dd_sequence) # 1 THEN "none"
    ELSE IF IsUNode(next_node) THEN "next"
    ELSE IF IsUNode(prev_node) THEN "prev"
    ELSE "none"

\* history only: what a FILL is to add to the global phase, the sequence's
\* phase for len(dd_sequence) > 1 and the absorbed inverse's for a single gate
FillContribution ==
    IF Len(dd_sequence) = 1 THEN EulerPhase(dd_sequence[1]) ELSE sequence_phase

\* one call of _pad, lines 275-375
Pad(qubit, t_start, t_end, prev_node, next_node) ==
    /\ pc = "ready"
    /\ n_pads < MaxIntervals
    /\ n_pads' = n_pads + 1
    /\ \E time_interval \in { t_end - t_start } :
       \E path \in { PadPath(qubit, time_interval, prev_node, next_node) } :
       \E slack \in { time_interval - SumSeq(dd_sequence_lengths[qubit]) } :
       \E absorbed \in { IF path = "go_on" THEN Absorber(prev_node, next_node)
                         ELSE "none" } :
       \E sequence_gphase \in { IF absorbed = "none" THEN sequence_phase
                                ELSE sequence_phase + EulerPhase(dd_sequence[1]) } :
       \E raises \in { path = "go_on" /\ ~ValidDistribution(extra_slack_distribution) } :
       \E fills \in { path = "go_on" /\ ~raises } :
       \E taus \in { IF fills
                     THEN DelayLengths(slack, spacing.v, alignment,
                                       extra_slack_distribution)
                     ELSE <<>> } :
       \E ops \in { IF fills
                    THEN ConstructFrom(1, t_start, <<>>, taus, dd_sequence_lengths[qubit])
                    ELSE IF raises THEN <<>>
                    ELSE ApplyScheduledOp(<<>>, t_start, DelayOp(time_interval)) } :
           /\ node_params' =
                CASE absorbed = "next" ->
                        [node_params EXCEPT ![next_node] =
                            ComposeU3(@, EulerAngles(dd_sequence[1]))]
                  [] absorbed = "prev" ->
                        [node_params EXCEPT ![prev_node] =
                            ComposeU3(EulerAngles(dd_sequence[1]), @)]
                  [] OTHER -> node_params
           /\ emitted' = ops
           /\ any_emitted' = (any_emitted \/ Len(ops) > 0)
           /\ pc' = IF raises THEN "raised" ELSE "padded"
           /\ error' = IF raises THEN "bad_distribution" ELSE error
           /\ global_phase' = IF fills THEN Mod2Pi(global_phase + sequence_gphase, 0)
                              ELSE global_phase
           /\ n_fills' = IF fills THEN n_fills + 1 ELSE n_fills
           /\ n_phase_writes' = IF fills THEN n_phase_writes + 1 ELSE n_phase_writes
           /\ phase_sum' = IF fills THEN phase_sum + FillContribution ELSE phase_sum
           /\ last' = [qubit |-> qubit, t_start |-> t_start, t_end |-> t_end,
                       prev |-> prev_node, next |-> next_node,
                       path |-> IF raises THEN "raise" ELSE IF fills THEN "fill" ELSE path,
                       slack |-> slack, taus |-> taus, absorbed |-> absorbed]
    /\ UNCHANGED << dd_sequence, qubits, spacing, skip_reset_qubits, alignment,
                    extra_slack_distribution, dd_sequence_lengths, sequence_phase,
                    gate_duration, calibrations, physical, init_phase >>
    /\ UNCHANGED service_vars

\* the driver hands _pad one idle interval
PadSome ==
    \E qubit \in Qubits, t_start \in 0..MaxStart, time_interval \in 1..MaxInterval,
       prev_node \in PrevNodes, next_node \in NextNodes :
        Pad(qubit, t_start, t_start + time_interval, prev_node, next_node)

\* the driver consumes the interval and moves on to the next one
NextInterval ==
    /\ pc = "padded"
    /\ n_pads < MaxIntervals
    /\ pc' = "ready"
    /\ emitted' = <<>>
    /\ last' = NoLast
    /\ UNCHANGED << dd_sequence, qubits, spacing, skip_reset_qubits, alignment,
                    extra_slack_distribution, dd_sequence_lengths, sequence_phase,
                    gate_duration, calibrations, physical, global_phase, node_params,
                    any_emitted, n_pads, n_fills, n_phase_writes, phase_sum, init_phase,
                    error >>
    /\ UNCHANGED service_vars

Next == PreRunhook \/ PadSome \/ NextInterval

Spec == Init /\ [][Next]_vars

--------------------------------------------------------------------------
(* The delay lengths of _pad (lines 332-356) on their own, over every valid
   spacing with denominator SpacingDen, every slack and every alignment *)

ValidSpacings ==
    { sp \in UNION { [1..k -> { <<n, SpacingDen>> : n \in 0..SpacingDen }] :
                        k \in 1..MaxSpacingLen } :
        SumIsOne(sp) /\ ~AnyNegative(sp) }

\* the balanced spacings setup installs, next to the user's valid ones,
\* and the one of the example in _pad's comment (four gates)
AllocSpacings ==
    ValidSpacings \cup { BalancedSpacing(n) : n \in 1..MaxSeqLen }
                  \cup { BalancedSpacing(4) }

\* the slack and the alignment of the documented examples:
\* slack 100 and 101, alignment 16; slack 352 = 992 - 4 * 160 in _pad's comment
ExampleSlacks == {100, 101, 352}
ExampleAlignments == {16}

InitAlloc ==
    \E sp \in AllocSpacings, a \in (1..MaxAllocAlign) \cup ExampleAlignments,
       dist \in Distributions :
        /\ spacing = [given |-> TRUE, v |-> sp]
        /\ alignment = a
        /\ extra_slack_distribution = dist
        /\ dd_sequence = <<>>
        /\ qubits = NoQubits
        /\ skip_reset_qubits = FALSE
        /\ dd_sequence_lengths = [q \in Qubits |-> <<>>]
        /\ sequence_phase = 0
        /\ gate_duration = <<>>
        /\ calibrations = NoCalibrations
        /\ physical = TRUE
        /\ global_phase = 0
        /\ init_phase = 0
        /\ phase_sum = 0
        /\ node_params = InitialParams
        /\ pc = "alloc"
        /\ emitted = <<>>
        /\ any_emitted = FALSE
        /\ n_pads = 0
        /\ n_fills = 0
        /\ n_phase_writes = 0
        /\ last = NoLast
        /\ error = "none"
        /\ ServiceIdle

\* lines 332-356 for one slack > 0
Allocate(slack) ==
    /\ pc \in {"alloc", "allocated"}
    /\ IF ValidDistribution(extra_slack_distribution)
       THEN /\ pc' = "allocated"
            /\ error' = error
            /\ last' = [NoLast EXCEPT
                          !.path = "fill", !.slack = slack,
                          !.taus = DelayLengths(slack, spacing.v, alignment,
                                                extra_slack_distribution)]
       ELSE /\ pc' = "raised"
            /\ error' = "bad_distribution"
            /\ last' = [NoLast EXCEPT !.path = "raise", !.slack = slack]
    /\ UNCHANGED << dd_sequence, qubits, spacing, skip_reset_qubits, alignment,
                    extra_slack_distribution, dd_sequence_lengths, sequence_phase,
                    gate_duration, calibrations, physical, global_phase, node_params,
                    emitted, any_emitted, n_pads, n_fills, n_phase_writes, phase_sum,
                    init_phase >>
    /\ UNCHANGED service_vars

NextAlloc == \E slack \in (1..MaxSlack) \cup ExampleSlacks : Allocate(slack)

SpecAlloc == InitAlloc /\ [][NextAlloc]_vars

--------------------------------------------------------------------------
(* _pre_runhook over every combination of sequence, spacing, qubits,
   alignment, calibration and circuit kind, followed by the first interval *)

SetupArgSpace == [qubits : QubitArgs, spacing : SpacingArgs,
                  skip_reset_qubits : {TRUE}, pulse_alignment : 1..MaxAlign,
                  extra_slack_distribution : {"middle", "edges"}]

\* no calibration, or one for the X gate on qubit 0 or on qubit 1
SetupCalibrationChoices ==
    {NoCalibrations} \cup
    { [NoCalibrations EXCEPT ![<<q, "x">>] = c] : q \in Qubits, c \in 1..MaxAlign }

SetupDagSpace == [calibrations : SetupCalibrationChoices, physical : BOOLEAN,
                  global_phase : {0}]

InitSetup ==
    \E args \in SetupArgSpace, dag \in SetupDagSpace,
       seq \in SeqsUpTo(Gates, MaxSetupSeqLen) :
        /\ dd_sequence = seq
        /\ qubits = args.qubits
        /\ spacing = args.spacing
        /\ skip_reset_qubits = args.skip_reset_qubits
        /\ alignment = args.pulse_alignment
        /\ extra_slack_distribution = args.extra_slack_distribution
        /\ dd_sequence_lengths = [q \in Qubits |-> <<>>]
        /\ sequence_phase = 0
        /\ gate_duration = [i \in 1..Len(seq) |-> 0]
        /\ calibrations = dag.calibrations
        /\ physical = dag.physical
        /\ global_phase = dag.global_phase
        /\ init_phase = dag.global_phase
        /\ phase_sum = dag.global_phase
        /\ node_params = InitialParams
        /\ pc = "new"
        /\ emitted = <<>>
        /\ any_emitted = FALSE
        /\ n_pads = 0
        /\ n_fills = 0
        /\ n_phase_writes = 0
        /\ last = NoLast
        /\ error = "none"
        /\ ServiceIdle

\* the driver hands _pad the first idle interval, on qubit 0 after a gate
PadFirst ==
    \E t_start \in 0..MaxStart, time_interval \in 1..MaxInterval,
       next_node \in NextNodes :
        Pad(0, t_start, t_start + time_interval, "cx", next_node)

NextSetup == PreRunhook \/ PadFirst

SpecSetup == InitSetup /\ [][NextSetup]_vars

--------------------------------------------------------------------------
(* IBMBackendService: the server, and the arguments of jobs() and job_ids().
   A job is [id, creationDate]; dates are 1..MaxDate and NoDate is None. *)

MaxJobs == 3
MaxDate == 2
MaxPageCap == 2
MaxLimit == 3
MaxSkip == 2
MaxResponses == 6

\* the page sizes the two loops ask for when limit sets none
JobsPageLimit == 50
JobIdsPageLimit == 20

NoDate == 0

LimitNone == [given |-> FALSE, v |-> 0]
LimitArgs == {LimitNone} \cup { [given |-> TRUE, v |-> n] : n \in 0..MaxLimit }

\* "if limit:" and "limit or 20": limit is neither None nor 0
Truthy(l) == l.given /\ l.v # 0

\* the server's job lists: ids 1..n in the order of creation, where
\* several jobs may share a creationDate
ServerLists ==
    UNION { { [i \in 1..n |-> [id |-> i, creationDate |-> d[i]]] :
                d \in { dd \in [1..n -> 1..MaxDate] :
                          \A i \in 1..(n - 1) : dd[i] <= dd[i + 1] } } :
            n \in 0..MaxJobs }

Reverse(s) == [i \in 1..Len(s) |-> s[Len(s) + 1 - i]]

\* the server's ordered list: newest first when descending
Ordered(jobs, desc) == IF desc THEN Reverse(jobs) ELSE jobs

Take(s, n) == SubSeq(s, 1, IF n < Len(s) THEN n ELSE Len(s))
Drop(s, n) == SubSeq(s, n + 1, Len(s))

\* what the server returns for limit, skip over a list: never more than
\* page_cap jobs
Page(list, lim, sk) == Take(Drop(list, sk), IF lim < page_cap THEN lim ELSE page_cap)

\* self._provider._runtime_client.jobs_get(limit, skip, descending)
JobsGet(lim, sk, desc) == Page(Ordered(server_jobs, desc), lim, sk)

EmptyFilter == [k \in {} |-> NoDate]

\* api_filter as job_ids() builds it when no datetime is given: no
\* "creationDate" and no "id" key
InitialFilter == [creationDate |-> EmptyFilter, id |-> <<>>]

SetMax(S) == CHOOSE x \in S : \A y \in S : y <= x
SetMin(S) == CHOOSE x \in S : \A y \in S : x <= y

\* _update_creation_date_filter: the filter it returns (new) and what the
\* pops leave of cur_dt_filter (cur)
UpdateCreationDateFilter(cur_dt_filter, gte_arg, lte_arg) ==
    LET dom0 == DOMAIN cur_dt_filter
        has_lo == "between" \in dom0 /\ Len(cur_dt_filter["between"]) > 0
        gt_list == { cur_dt_filter[k] : k \in dom0 \cap {"gt", "gte"} }
                   \cup (IF has_lo THEN {cur_dt_filter["between"][1]} ELSE {})
        gte_dt == IF gte_arg # NoDate THEN gte_arg
                  ELSE IF gt_list # {} THEN SetMax(gt_list) ELSE NoDate
        dom1 == IF gte_arg # NoDate THEN dom0
                ELSE dom0 \ ({"gt", "gte"} \cup (IF has_lo THEN {"between"} ELSE {}))
        has_hi == "between" \in dom1 /\ Len(cur_dt_filter["between"]) > 1
        lt_list == { cur_dt_filter[k] : k \in dom1 \cap {"lt", "lte"} }
                   \cup (IF has_hi THEN {cur_dt_filter["between"][2]} ELSE {})
        lte_dt == IF lte_arg # NoDate THEN lte_arg
                  ELSE IF lt_list # {} THEN SetMin(lt_list) ELSE NoDate
        dom2 == IF lte_arg # NoDate THEN dom1
                ELSE dom1 \ ({"lt", "lte"} \cup (IF has_hi THEN {"between"} ELSE {}))
        new_dt_filter ==
            IF gte_dt # NoDate /\ lte_dt # NoDate
            THEN [k \in {"between"} |-> <<gte_dt, lte_dt>>]
            ELSE IF gte_dt # NoDate THEN [k \in {"gte"} |-> gte_dt]
            ELSE IF lte_dt # NoDate THEN [k \in {"lte"} |-> lte_dt]
            ELSE EmptyFilter
    IN [new |-> new_dt_filter, cur |-> [k \in dom2 |-> cur_dt_filter[k]]]

\* the server's reading of a creationDate filter and of {"nin": ids}
MatchesDate(job, f) ==
    \A k \in DOMAIN f :
        CASE k = "gt" -> job.creationDate > f[k]
          [] k = "gte" -> job.creationDate >= f[k]
          [] k = "lt" -> job.creationDate < f[k]
          [] k = "lte" -> job.creationDate <= f[k]
          [] k = "between" -> /\ f[k][1] <= job.creationDate
                              /\ job.creationDate <= f[k][2]

Matches(job, extra_filter) ==
    /\ MatchesDate(job, extra_filter.creationDate)
    /\ \A i \in 1..Len(extra_filter.id) : job.id # extra_filter.id[i]

\* self._default_hgp._api_client.list_jobs_ids(limit, skip, descending,
\* extra_filter)
ListJobsIds(lim, sk, desc, extra_filter) ==
    Page(SelectSeq(Ordered(server_jobs, desc), LAMBDA j : Matches(j, extra_filter)),
         lim, sk)

\* the pass is not running
PassIdle ==
    /\ dd_sequence = <<>>
    /\ qubits = NoQubits
    /\ spacing = NoneArg
    /\ skip_reset_qubits = TRUE
    /\ alignment = 1
    /\ extra_slack_distribution = "middle"
    /\ dd_sequence_lengths = [q \in Qubits |-> <<>>]
    /\ sequence_phase = 0
    /\ gate_duration = <<>>
    /\ calibrations = NoCalibrations
    /\ physical = TRUE
    /\ global_phase = 0
    /\ init_phase = 0
    /\ phase_sum = 0
    /\ node_params = InitialParams
    /\ pc = "new"
    /\ emitted = <<>>
    /\ any_emitted = FALSE
    /\ n_pads = 0
    /\ n_fills = 0
    /\ n_phase_writes = 0
    /\ last = NoLast
    /\ error = "none"

\* the arguments of a call and the server it meets
ServiceCall(jobs, cap, l, s, d) ==
    /\ server_jobs = jobs
    /\ page_cap = cap
    /\ limit = l
    /\ skip_arg = s
    /\ descending = d
    /\ skip = s
    /\ api_filter = InitialFilter
    /\ job_responses = <<>>

--------------------------------------------------------------------------
(* _get_jobs: one step per request of the while loop *)

\* line 279
JobsFirstPageLimit(l) == IF l.given /\ l.v <= JobsPageLimit THEN l.v ELSE JobsPageLimit

InitJobs ==
    \E jobs \in ServerLists, cap \in 1..MaxPageCap, l \in LimitArgs,
       s \in 0..MaxSkip, d \in BOOLEAN :
        /\ ServiceCall(jobs, cap, l, s, d)
        /\ current_page_limit = JobsFirstPageLimit(l)
        /\ svc_pc = "jobs"
        /\ PassIdle

\* lines 281-298
GetJobsPage ==
    /\ svc_pc = "jobs"
    /\ LET job_page == JobsGet(current_page_limit, skip, descending)
           responses == job_responses \o job_page
       IN IF job_page = <<>>
          THEN /\ svc_pc' = "returned"
               /\ UNCHANGED << job_responses, current_page_limit, skip >>
          ELSE /\ job_responses' = responses
               /\ IF Truthy(limit) /\ Len(responses) >= limit.v
                  THEN /\ svc_pc' = "returned"
                       /\ UNCHANGED << current_page_limit, skip >>
                  ELSE /\ current_page_limit' =
                              IF Truthy(limit) THEN limit.v - Len(responses)
                              ELSE JobsPageLimit
                       /\ skip' = Len(responses)
                       /\ svc_pc' = svc_pc
    /\ UNCHANGED << server_jobs, page_cap, limit, skip_arg, descending, api_filter >>
    /\ UNCHANGED pass_vars

NextJobs == GetJobsPage

SpecJobs == InitJobs /\ [][NextJobs]_vars

--------------------------------------------------------------------------
(* _get_job_ids: one step per request of the while loop.  The loop has no
   bound of its own; the model stops it at MaxResponses ids. *)

\* line 461
JobIdsFirstPageLimit(l) == IF Truthy(l) THEN l.v ELSE JobIdsPageLimit

InitJobIds ==
    \E jobs \in ServerLists, cap \in 1..MaxPageCap, l \in LimitArgs,
       s \in 0..MaxSkip, d \in BOOLEAN :
        /\ ServiceCall(jobs, cap, l, s, d)
        /\ current_page_limit = JobIdsFirstPageLimit(l)
        /\ svc_pc = "job_ids"
        /\ PassIdle

\* lines 489-519 for initial_filter = InitialFilter: the filter of the
\* next request
NextFilter(last_job, desc) ==
    LET cur_dt_filter == InitialFilter.creationDate
        upd == IF desc
               THEN UpdateCreationDateFilter(cur_dt_filter, NoDate,
                                             last_job.creationDate)
               ELSE UpdateCreationDateFilter(cur_dt_filter,
                                             last_job.creationDate, NoDate)
    IN [creationDate |-> upd.new, id |-> << last_job.id >>]

\* lines 465-519
GetJobIdsPage ==
    /\ svc_pc = "job_ids"
    /\ Len(job_responses) < MaxResponses
    /\ LET job_page == ListJobsIds(current_page_limit, skip, descending, api_filter)
           responses == job_responses \o job_page
       IN IF job_page = <<>>
          THEN /\ svc_pc' = "returned"
               /\ UNCHANGED << job_responses, current_page_limit, skip, api_filter >>
          ELSE /\ job_responses' = responses
               /\ IF Truthy(limit) /\ Len(responses) >= limit.v
                  THEN /\ svc_pc' = "returned"
                       /\ UNCHANGED << current_page_limit, skip, api_filter >>
                  ELSE /\ current_page_limit' =
                              IF Truthy(limit) THEN limit.v - Len(responses)
                              ELSE JobIdsPageLimit
                       /\ skip' = 0
                       /\ api_filter' = NextFilter(job_page[Len(job_page)], descending)
                       /\ svc_pc' = svc_pc
    /\ UNCHANGED << server_jobs, page_cap, limit, skip_arg, descending >>
    /\ UNCHANGED pass_vars

NextJobIds == GetJobIdsPage

SpecJobIds == InitJobIds /\ [][NextJobIds]_vars

--------------------------------------------------------------------------
(* Properties *)

SkipPaths == {"skip_qubit", "skip_reset", "skip_slack", "skip_noabsorb"}

RECURSIVE SumLengths(_)
SumLengths(ops) == IF ops = <<>> THEN 0 ELSE Head(ops).length + SumLengths(Tail(ops))

IsGateOp(op) == op.kind = "gate"
IsDelayOp(op) == op.kind = "delay"

\* the angle in [-pi, pi) that differs from a by a multiple of 2*pi
WrapOf(a) == CHOOSE w \in -2..1 : (a - w) % 4 = 0

\* a sequence of at least one gate with one spacing fraction per delay
WellFormedConfig ==
    Len(dd_sequence) >= 1 /\ spacing.given /\ Len(spacing.v) = Len(dd_sequence) + 1

\* C1: conservation. Whenever _pad computes delay lengths for a slack > 0,
\* whatever the valid spacing, the alignment and the distribution, the
\* delay lengths sum to exactly the slack.
C1_Conservation ==
    last.path = "fill" => SumSeq(last.taus) = last.slack

\* C1 witness: delay lengths were computed and flooring to the alignment grid
\* left extra slack to distribute
C1_Witness ==
    /\ last.path = "fill"
    /\ alignment > 1
    /\ Len(last.taus) >= 3
    /\ SumSeq(FlooredTaus(last.slack, spacing.v, alignment)) < last.slack
    /\ last.slack % alignment # 0

\* C5: under "middle" every computed delay except possibly the last one is a
\* multiple of the alignment.
C5_MiddleAligned ==
    (last.path = "fill" /\ extra_slack_distribution = "middle") =>
        \A i \in 1..(Len(last.taus) - 1) : last.taus[i] % alignment = 0

\* C5 witness: under "middle" the middle delay got extra slack and the last
\* delay is off the grid
C5_Witness ==
    /\ last.path = "fill"
    /\ extra_slack_distribution = "middle"
    /\ alignment > 1
    /\ Len(last.taus) >= 3
    /\ last.taus[Len(last.taus)] % alignment # 0
    /\ last.taus[MidInd(last.taus)] >
          FlooredTaus(last.slack, spacing.v, alignment)[MidInd(last.taus)]

\* C6 as claimed: under "edges" every computed delay, the last one included,
\* is a multiple of the alignment, also for a slack that is not one.
C6_EdgesAllAligned ==
    (last.path = "fill" /\ extra_slack_distribution = "edges") =>
        \A i \in 1..Len(last.taus) : last.taus[i] % alignment = 0

\* C6 amended: under "edges" every computed delay except possibly the last one
\* is a multiple of the alignment, and the last one is a multiple of the
\* alignment exactly when the slack is.
C6_EdgesAlignedButLast ==
    (last.path = "fill" /\ extra_slack_distribution = "edges") =>
        /\ \A i \in 1..(Len(last.taus) - 1) : last.taus[i] % alignment = 0
        /\ (last.taus[Len(last.taus)] % alignment = 0) <=> (last.slack % alignment = 0)

\* C6 witness: under "edges" the first delay got a share of the extra slack
\* and the slack is not a multiple of the alignment
C6_Witness ==
    /\ last.path = "fill"
    /\ extra_slack_distribution = "edges"
    /\ alignment > 1
    /\ Len(last.taus) >= 3
    /\ last.slack % alignment # 0
    /\ last.taus[1] > FlooredTaus(last.slack, spacing.v, alignment)[1]

\* the operations of a sequence that are gates, in order
GatesOf(ops) == SelectSeq(ops, IsGateOp)

\* C2: timeline coverage. After every _pad call that did not raise, the
\* emitted operations are back to back from t_start on, each gate counted
\* with the qubit's cached length, and their lengths sum to t_end - t_start;
\* on a SKIP path the call emitted exactly one delay of t_end - t_start at
\* t_start.
C2_TimelineCoverage ==
    pc = "padded" =>
        /\ \A i \in 1..Len(emitted) :
              emitted[i].t0 = last.t_start + SumLengths(SubSeq(emitted, 1, i - 1))
        /\ SumLengths(emitted) = last.t_end - last.t_start
        /\ last.path = "fill" =>
              /\ Len(GatesOf(emitted)) = Len(dd_sequence)
              /\ \A k \in 1..Len(dd_sequence) :
                    GatesOf(emitted)[k].length = dd_sequence_lengths[last.qubit][k]
        /\ last.path \in SkipPaths =>
              /\ Len(emitted) = 1
              /\ IsDelayOp(emitted[1])
              /\ emitted[1].t0 = last.t_start
              /\ emitted[1].length = last.t_end - last.t_start

\* C2 witness: a FILL that starts after time 0, under an alignment > 1, with
\* extra slack distributed and at least two gates and two delays emitted
C2_Witness ==
    /\ pc = "padded"
    /\ last.path = "fill"
    /\ last.t_start > 0
    /\ alignment > 1
    /\ Len(GatesOf(emitted)) >= 2
    /\ Len(emitted) >= 4
    /\ SumSeq(FlooredTaus(last.slack, spacing.v, alignment)) < last.slack

\* C3 as claimed: whenever the pass has raised, nothing was changed on the
\* timeline in that run: _pad emitted no operation and mutated no node's
\* parameters.
C3_AllOrNothing ==
    (pc = "raised" /\ WellFormedConfig) =>
        (~any_emitted /\ node_params = InitialParams)

\* C4 as claimed: an extra_slack_distribution other than "middle" or "edges"
\* is rejected at setup, so once _pre_runhook has run with such a value the
\* pass has raised and no idle interval was processed.
C4_RejectedAtSetup ==
    (pc # "new" /\ WellFormedConfig
               /\ ~(extra_slack_distribution \in {"middle", "edges"})) =>
        (pc = "raised" /\ n_pads = 0)

\* C7 as claimed: when t_start is a multiple of the alignment, every operation
\* a FILL emits starts at a multiple of the alignment, whether the gate lengths
\* came from a calibration or from the durations table.
C7_StartsAligned ==
    (pc = "padded" /\ WellFormedConfig /\ last.path = "fill"
                   /\ last.t_start % alignment = 0) =>
        \A i \in 1..Len(emitted) : emitted[i].t0 % alignment = 0

\* C8 as claimed: in single-gate mode, when the inverse was absorbed into a
\* neighbor, no gate is inserted for the interval: only delays are emitted.
C8_NoGateInserted ==
    (pc = "padded" /\ WellFormedConfig /\ Len(dd_sequence) = 1
                   /\ last.absorbed # "none") =>
        \A i \in 1..Len(emitted) : IsDelayOp(emitted[i])

\* C8 amended: in single-gate mode, when the inverse was absorbed into a
\* neighbor, the gate itself is inserted exactly once for the interval, and
\* every other emitted operation is a delay.
C8_GateInsertedOnce ==
    (pc = "padded" /\ Len(dd_sequence) = 1 /\ last.absorbed # "none") =>
        /\ Len(GatesOf(emitted)) = 1
        /\ GatesOf(emitted)[1].name = dd_sequence[1]
        /\ \A i \in 1..Len(emitted) : IsGateOp(emitted[i]) \/ IsDelayOp(emitted[i])

\* C8 witness: a single gate whose inverse the successor absorbed, emitted
\* between two delays
C8_Witness ==
    /\ pc = "padded"
    /\ Len(dd_sequence) = 1
    /\ last.absorbed = "next"
    /\ node_params[last.next] # InitialParams[last.next]
    /\ Len(emitted) = 3
    /\ IsGateOp(emitted[2])

\* C9: in single-gate mode with slack > 0, when neither the successor nor the
\* predecessor is a U/U3 operation node, the _pad call raises nothing, emits
\* exactly one delay spanning the interval, and changes neither a node's
\* parameters nor the global phase.
C9_NoAbsorberFallback ==
    [][ ( /\ pc = "ready"
          /\ n_pads' = n_pads + 1
          /\ Len(dd_sequence) = 1
          /\ last'.slack > 0
          /\ ~IsUNode(last'.next)
          /\ ~IsUNode(last'.prev) )
        => ( /\ pc' = "padded"
             /\ Len(emitted') = 1
             /\ IsDelayOp(emitted'[1])
             /\ emitted'[1].t0 = last'.t_start
             /\ emitted'[1].length = last'.t_end - last'.t_start
             /\ node_params' = node_params
             /\ global_phase' = global_phase ) ]_vars

\* C9 witness: the fallback was taken on a targeted qubit after an operation
\* that is no reset, under a distribution value _pad would reject
C9_Witness ==
    /\ pc = "padded"
    /\ Len(dd_sequence) = 1
    /\ last.path = "skip_noabsorb"
    /\ last.slack > 0
    /\ last.prev = "cx"
    /\ ~ValidDistribution(extra_slack_distribution)

--------------------------------------------------------------------------
(* Properties of _pre_runhook *)

\* how many gates of the sequence are in the set
CountIn(seq, S) == Cardinality({ i \in 1..Len(seq) : seq[i] \in S })

\* the product of the gates is the identity up to a global phase: a Pauli
\* product is one exactly when it holds an even number of factors with an X
\* part (X, Y, RX(pi)) and an even number with a Z part (Y, Z)
IsIdentityUpToPhase(seq) ==
    /\ CountIn(seq, {"x", "y", "rx"}) % 2 = 0
    /\ CountIn(seq, {"y", "z"}) % 2 = 0

\* setup raised: no interval was processed and nothing was emitted
RaisedAtSetup == pc = "raised" /\ n_pads = 0 /\ ~any_emitted

\* setup succeeded
SetupSucceeded == pc \in {"ready", "padded"}

\* C11: a dd_sequence of length > 1 is accepted by setup only if the product
\* of its gates is the identity up to a global phase, and then the stored
\* sequence phase is the phase angle of that product; otherwise setup raises
\* before any operation is emitted.
C11_IdentityProduct ==
    (pc # "new" /\ Len(dd_sequence) > 1) =>
        /\ SetupSucceeded =>
              /\ IsIdentityUpToPhase(dd_sequence)
              /\ sequence_phase = Angle(SeqProduct(<<0, "I">>, dd_sequence)[1])
        /\ ~IsIdentityUpToPhase(dd_sequence) => RaisedAtSetup

\* C11 witness: a two-gate sequence with product -i * I was accepted, its
\* phase -pi/2 stored, and an interval was filled with it
C11_Witness ==
    /\ pc = "padded"
    /\ dd_sequence = <<"rx", "x">>
    /\ sequence_phase = -1
    /\ last.path = "fill"

\* C12: a dd_sequence of odd length > 1 makes setup raise before any
\* operation is emitted, whatever its gates are.
C12_OddRejected ==
    (pc # "new" /\ Len(dd_sequence) > 1 /\ Len(dd_sequence) % 2 = 1) => RaisedAtSetup

\* C12 witness: setup raised for the length of a three-gate sequence whose
\* product X Y Z = i * I is the identity up to phase
C12_Witness ==
    /\ RaisedAtSetup
    /\ error = "odd_length"
    /\ dd_sequence = <<"x", "y", "z">>
    /\ IsIdentityUpToPhase(dd_sequence)

\* C13 as claimed: after setup has succeeded for a sequence of at least one
\* gate, the spacing has exactly len(dd_sequence) + 1 elements.
C13_SpacingLength ==
    (SetupSucceeded /\ Len(dd_sequence) >= 1) =>
        (spacing.given /\ Len(spacing.v) = Len(dd_sequence) + 1)

\* C14: a spacing whose elements do not sum to 1, or with a negative element,
\* makes setup raise before any operation is emitted; a spacing of
\* non-negative elements summing to 1 does not raise the spacing error.
C14_SpacingValidated ==
    (pc # "new" /\ spacing.given) =>
        /\ (~SumIsOne(spacing.v) \/ AnyNegative(spacing.v)) => RaisedAtSetup
        /\ (SumIsOne(spacing.v) /\ ~AnyNegative(spacing.v)) => error # "bad_spacing"

\* C14 witness: setup raised the spacing error for a spacing that sums to 1
\* and has a negative element
C14_Witness ==
    /\ RaisedAtSetup
    /\ error = "bad_spacing"
    /\ SumIsOne(spacing.v)
    /\ AnyNegative(spacing.v)

\* C15: when spacing is None and the circuit is physical, setup installs for
\* n = len(dd_sequence) >= 1 a spacing of n + 1 non-negative elements, the
\* two end ones 1/(2n) and the n - 1 interior ones 1/n, summing to 1.
C15_BalancedDefault ==
    [][ (pc = "new" /\ ~spacing.given /\ physical /\ Len(dd_sequence) >= 1) =>
          LET n == Len(dd_sequence)
              v == spacing'.v
          IN  /\ spacing'.given
              /\ Len(v) = n + 1
              /\ \A i \in 1..(n + 1) :
                    /\ v[i][1] >= 0 /\ v[i][2] > 0
                    /\ IF i = 1 \/ i = n + 1
                       THEN v[i][1] * 2 * n = v[i][2]
                       ELSE v[i][1] * n = v[i][2]
              /\ SumIsOne(v) ]_vars

\* C15 witness: the balanced spacing [1/4, 1/2, 1/4] was installed for a
\* two-gate sequence and setup succeeded
C15_Witness ==
    /\ pc = "ready"
    /\ Len(dd_sequence) = 2
    /\ spacing = [given |-> TRUE, v |-> << <<1, 4>>, <<1, 2>>, <<1, 4>> >>]

--------------------------------------------------------------------------
(* Properties of the SKIP paths of _pad *)

\* the step is a call of _pad
PadCalled == pc = "ready" /\ n_pads' = n_pads + 1

\* the call returned after emitting exactly one delay over the whole interval
OneDelayEmitted ==
    /\ pc' = "padded"
    /\ Len(emitted') = 1
    /\ IsDelayOp(emitted'[1])
    /\ emitted'[1].t0 = last'.t_start
    /\ emitted'[1].length = last'.t_end - last'.t_start

\* C16 as claimed: for an interval on a qubit that is not in the configured
\* qubit list, _pad emits exactly one delay over the whole interval, emits no
\* gate and changes neither a node's parameters nor the global phase.
C16_UntargetedSkipped ==
    [][ (PadCalled /\ WellFormedConfig /\ qubits.given
                   /\ last'.qubit \notin qubits.idx) =>
          (OneDelayEmitted /\ node_params' = node_params
                           /\ global_phase' = global_phase) ]_vars

\* C17: when skip_reset_qubits is true and the predecessor is the input
\* boundary or a reset, _pad emits exactly one delay over the whole interval
\* and no gate, whatever the slack and the neighbors are.
C17_ResetSkipped ==
    [][ (PadCalled /\ skip_reset_qubits /\ IsGroundState(last'.prev)) =>
          OneDelayEmitted ]_vars

\* C17 witness: the interval after a reset was skipped although the single
\* gate would fit and the successor could absorb its inverse
C17_Witness ==
    /\ pc = "padded"
    /\ last.path = "skip_reset"
    /\ last.prev = "reset"
    /\ Len(dd_sequence) = 1
    /\ last.slack > 0
    /\ IsUNode(last.next)
    /\ Len(emitted) = 1
    /\ node_params = InitialParams

\* C18: when the slack of the interval is <= 0, _pad emits exactly one delay
\* over the whole interval and no gate, and mutates no node.
C18_NoSlackSkipped ==
    [][ (PadCalled /\ last'.slack <= 0) =>
          (OneDelayEmitted /\ node_params' = node_params) ]_vars

\* C18 witness: in single-gate mode an interval of slack exactly 0 before a
\* U gate was skipped for its slack and the U gate's parameters are as before
C18_Witness ==
    /\ pc = "padded"
    /\ last.path = "skip_slack"
    /\ last.slack = 0
    /\ Len(dd_sequence) = 1
    /\ IsUNode(last.next)
    /\ node_params = InitialParams

--------------------------------------------------------------------------
(* Properties of the delay lengths under "middle" *)

\* the fractions a and b are equal
RatEq(a, b) == a[1] * b[2] = b[1] * a[2]

\* the spacing is the default policy for two gates, [1/4, 1/2, 1/4]
IsDefaultPolicyOfTwo(sp) ==
    /\ Len(sp) = 3
    /\ RatEq(sp[1], <<1, 4>>) /\ RatEq(sp[2], <<1, 2>>) /\ RatEq(sp[3], <<1, 4>>)

\* C19: under "middle" with a spacing of n + 1 fractions f_i the delays are
\* A * floor(slack * f_i / A), plus A * floor(extra / A) at index floor(n / 2)
\* and extra mod A at the last index, extra being slack less the sum of the
\* floored delays; slack 100, A = 1 and the default policy for two gates give
\* [25, 50, 25], slack 101 and A = 16 give [16, 64, 21].
C19_MiddleFormula ==
    (last.path = "fill" /\ extra_slack_distribution = "middle") =>
        LET sp == spacing.v
            n == Len(sp) - 1
            A == alignment
            floored == [i \in 1..(n + 1) |->
                          A * ((last.slack * sp[i][1]) \div (sp[i][2] * A))]
            extra == last.slack - SumSeq(floored)
        IN  /\ last.taus =
                  [i \in 1..(n + 1) |->
                      floored[i]
                      + (IF i = (n \div 2) + 1 THEN A * (extra \div A) ELSE 0)
                      + (IF i = n + 1 THEN extra % A ELSE 0)]
            /\ (last.slack = 100 /\ A = 1 /\ IsDefaultPolicyOfTwo(sp)) =>
                  last.taus = <<25, 50, 25>>
            /\ (last.slack = 101 /\ A = 16 /\ IsDefaultPolicyOfTwo(sp)) =>
                  last.taus = <<16, 64, 21>>

\* C19 witness: slack 101 under alignment 16 and the default policy for two
\* gates: floored delays [16, 48, 16], 16 more to the middle, 5 to the last
C19_Witness ==
    /\ last.path = "fill"
    /\ extra_slack_distribution = "middle"
    /\ last.slack = 101
    /\ alignment = 16
    /\ spacing.v = BalancedSpacing(2)
    /\ FlooredTaus(last.slack, spacing.v, alignment) = <<16, 48, 16>>
    /\ last.taus = <<16, 64, 21>>

--------------------------------------------------------------------------
(* Properties of the phase wrap *)

C21_ClampedNearPi ==
    [][ (PadCalled /\ n_fills' = n_fills + 1 /\ WellFormedConfig) =>
          global_phase' = Mod2Pi(global_phase + (phase_sum' - phase_sum), 2) ]_vars

--------------------------------------------------------------------------
(* Properties of the single-gate absorption *)

\* the nodes whose parameters the step changes
ChangedNodes == { n \in OpNodes : node_params'[n] # node_params[n] }

\* C23: a FILL in single-gate mode changes the parameters of exactly one
\* neighbor: the successor when it is a U/U3 node, whatever the predecessor
\* is, and the predecessor only when the successor is not one.
C23_OneNeighborAbsorbs ==
    [][ (PadCalled /\ Len(dd_sequence) = 1 /\ n_fills' = n_fills + 1) =>
          /\ Cardinality(ChangedNodes) = 1
          /\ IsUNode(last'.next) => ChangedNodes = {last'.next}
          /\ ~IsUNode(last'.next) =>
                (IsUNode(last'.prev) /\ ChangedNodes = {last'.prev}) ]_vars

\* C23 witness: between two U nodes the single gate was inserted, the
\* successor took the inverse and the predecessor is as it was
C23_Witness ==
    /\ pc = "padded"
    /\ last.path = "fill"
    /\ Len(dd_sequence) = 1
    /\ last.prev = "ua"
    /\ last.next = "ub"
    /\ node_params["ua"] = InitialParams["ua"]
    /\ node_params["ub"] # InitialParams["ub"]

--------------------------------------------------------------------------
(* Properties of the delay lengths under "edges" *)

\* C24: under "edges" the delays are the floored values A * floor(slack *
\* f_i / A), the first plus begin_add = A * floor((extra / 2) / A) and the
\* last plus extra - begin_add; begin_add <= extra - begin_add and the two
\* differ by less than 2 * A; slack 352 (an interval of 992 with four gates of
\* 160), A = 16 and the balanced spacing give [48, 80, 80, 80, 64].
C24_EdgesFormula ==
    (last.path = "fill" /\ extra_slack_distribution = "edges") =>
        LET sp == spacing.v
            n == Len(sp) - 1
            A == alignment
            floored == [i \in 1..(n + 1) |->
                          A * ((last.slack * sp[i][1]) \div (sp[i][2] * A))]
            extra == last.slack - SumSeq(floored)
            begin_add == A * (extra \div (2 * A))
        IN  /\ last.taus =
                  [i \in 1..(n + 1) |->
                      floored[i]
                      + (IF i = 1 THEN begin_add ELSE 0)
                      + (IF i = n + 1 THEN extra - begin_add ELSE 0)]
            /\ begin_add <= extra - begin_add
            /\ (extra - begin_add) - begin_add < 2 * A
            /\ (last.slack = 352 /\ A = 16 /\ sp = BalancedSpacing(4)) =>
                  last.taus = <<48, 80, 80, 80, 64>>

\* C24 witness: slack 352 under alignment 16 and the balanced spacing of four
\* gates: floored delays [32, 80, 80, 80, 32], 16 more first and 32 more last
C24_Witness ==
    /\ last.path = "fill"
    /\ extra_slack_distribution = "edges"
    /\ last.slack = 352
    /\ alignment = 16
    /\ spacing.v = BalancedSpacing(4)
    /\ FlooredTaus(last.slack, spacing.v, alignment) = <<32, 80, 80, 80, 32>>
    /\ last.taus = <<48, 80, 80, 80, 64>>

--------------------------------------------------------------------------
(* Further properties of setup and of the emitted sequence *)

\* C25 as claimed: after setup has succeeded, len(dd_sequence) is 1 or an
\* even number >= 2; an empty sequence is never accepted.
C25_SequenceLength ==
    SetupSucceeded =>
        \/ Len(dd_sequence) = 1
        \/ (Len(dd_sequence) >= 2 /\ Len(dd_sequence) % 2 = 0)

\* position k of delay_0, gate_1, delay_1, ..., gate_n, delay_n
InterleavedOp(k, taus, lengths) ==
    IF k % 2 = 1
    THEN [kind |-> "delay", name |-> "delay", length |-> taus[(k + 1) \div 2]]
    ELSE [kind |-> "gate", name |-> dd_sequence[k \div 2], length |-> lengths[k \div 2]]

\* a gate, or a delay that is not of length 0
IsKept(op) == op.kind = "gate" \/ op.length > 0

\* C26: a FILL with n >= 2 gates and a spacing of n + 1 elements emits
\* delay_0, gate_1, delay_1, ..., gate_n, delay_n in this order, every gate
\* once, less the delays of length 0 and nothing else; no delay is negative.
C26_Interleaved ==
    (pc = "padded" /\ last.path = "fill" /\ Len(dd_sequence) >= 2
                   /\ Len(spacing.v) = Len(dd_sequence) + 1) =>
        LET n == Len(dd_sequence)
            lengths == dd_sequence_lengths[last.qubit]
            full == [k \in 1..(2 * n + 1) |-> InterleavedOp(k, last.taus, lengths)]
            kept == SelectSeq(full, IsKept)
        IN  /\ \A i \in 1..(n + 1) : last.taus[i] >= 0
            /\ Len(emitted) = Len(kept)
            /\ \A j \in 1..Len(kept) :
                  /\ emitted[j].kind = kept[j].kind
                  /\ emitted[j].name = kept[j].name
                  /\ emitted[j].length = kept[j].length

\* C26 witness: two gates were emitted with the first delay, of length 0,
\* left out, and a delay between them
C26_Witness ==
    /\ pc = "padded"
    /\ last.path = "fill"
    /\ Len(dd_sequence) = 2
    /\ Len(last.taus) = 3
    /\ last.taus[1] = 0
    /\ last.taus[2] > 0
    /\ IsGateOp(emitted[1])
    /\ IsDelayOp(emitted[2])
    /\ IsGateOp(emitted[3])

\* the qubit is in the configured list, or there is no list
InQubitList(q) == ~qubits.given \/ q \in qubits.idx

\* C27: a calibration of a sequence gate on a targeted qubit with a duration
\* that is not a multiple of the alignment makes setup raise before any
\* interval is padded; where a calibration exists, its duration is the one
\* cached for the qubit.
C27_CalibrationChecked ==
    pc # "new" =>
        /\ (\E q \in Qubits, i \in 1..Len(dd_sequence) :
               /\ InQubitList(q)
               /\ calibrations[<<q, dd_sequence[i]>>] # 0
               /\ calibrations[<<q, dd_sequence[i]>>] % alignment # 0)
              => RaisedAtSetup
        /\ SetupSucceeded =>
              \A q \in Qubits, i \in 1..Len(dd_sequence) :
                  (InQubitList(q) /\ calibrations[<<q, dd_sequence[i]>>] # 0) =>
                      /\ Len(dd_sequence_lengths[q]) = Len(dd_sequence)
                      /\ dd_sequence_lengths[q][i] = calibrations[<<q, dd_sequence[i]>>]

\* C27 witness: setup raised for the X calibration of length 1 on qubit 0,
\* the listed qubit, under alignment 2
C27_Witness ==
    /\ RaisedAtSetup
    /\ error = "bad_calibration"
    /\ qubits = [given |-> TRUE, idx |-> {0}]
    /\ calibrations[<<0, "x">>] = 1
    /\ alignment = 2

\* C28 as claimed: every sequence gate emitted on a qubit carries a duration
\* attribute equal to the length cached for that gate on that qubit.
C28_DurationIsCached ==
    (pc = "padded" /\ WellFormedConfig) =>
        \A i \in 1..Len(emitted) :
            IsGateOp(emitted[i]) => emitted[i].duration = emitted[i].length

\* C29: when t_start and the qubit's cached gate lengths are multiples of the
\* alignment and the spacing has len(dd_sequence) + 1 elements, every gate of
\* a FILL starts at a multiple of the alignment, under "middle" and under
\* "edges"; and when the slack is a multiple too, so is every delay.
C29_GatesOnGrid ==
    (/\ pc = "padded"
     /\ last.path = "fill"
     /\ last.t_start % alignment = 0
     /\ \A i \in 1..Len(dd_sequence) :
           dd_sequence_lengths[last.qubit][i] % alignment = 0
     /\ Len(spacing.v) = Len(dd_sequence) + 1) =>
        /\ \A j \in 1..Len(emitted) :
              IsGateOp(emitted[j]) => emitted[j].t0 % alignment = 0
        /\ last.slack % alignment = 0 =>
              \A i \in 1..Len(last.taus) : last.taus[i] % alignment = 0

\* C29 witness: under "edges" and alignment 2 two gates of length 2 were
\* emitted into an interval of odd slack, the last delay off the grid
C29_Witness ==
    /\ pc = "padded"
    /\ last.path = "fill"
    /\ extra_slack_distribution = "edges"
    /\ alignment = 2
    /\ last.t_start = 0
    /\ last.slack % 2 = 1
    /\ Len(dd_sequence) = 2
    /\ Len(spacing.v) = 3
    /\ \A i \in 1..2 : dd_sequence_lengths[last.qubit][i] = 2
    /\ last.taus[3] % 2 = 1

--------------------------------------------------------------------------
(* IBMBackendService.jobs and job_ids *)

\* positions S .. min(S + L, N) - 1 of the server's ordered list
JobsExpected ==
    LET list == Drop(Ordered(server_jobs, descending), skip_arg)
    IN IF limit.given THEN Take(list, limit.v) ELSE list

NoRepeatedId(s) == \A i, j \in 1..Len(s) : i # j => s[i].id # s[j].id

\* C22: jobs(limit=L, skip=S) returns exactly the jobs at positions
\* S .. min(S + L, N) - 1 of the server's ordered list of N matching jobs,
\* in order, none repeated and none missing, whatever the page cap of the
\* server and however many requests are needed.
C22_ExactSlice == svc_pc = "returned" => job_responses = JobsExpected

\* C30: job_ids() terminates and never returns the same job id twice.  The
\* list of ids only grows and every request that does not end the loop
\* adds an id, so both hold exactly when the list never holds an id twice.
C30_NoRepeatedId == NoRepeatedId(job_responses)

=============================================================================
